---- MODULE Spec2Model ----
(***************************************************************************)
(* Reading-time estimator of the site: src/lib/helpers.ts,                 *)
(* generateReadingTime(text).  A text is a sequence of one-character       *)
(* strings; the label the function returns is such a sequence too.         *)
(*                                                                         *)
(* Three specifications drive the function:                                *)
(*   Spec       an article is drafted, pasted into and rendered; every     *)
(*              render calls generateReadingTime on the article's text;    *)
(*   SpecCalls  any sequence of calls over a fixed set of inputs, with the *)
(*              log of the latest calls kept beside it;                    *)
(*   SpecConc   several callers inside the function at once, each running  *)
(*              it one source line at a time, in any interleaving.         *)
(***************************************************************************)
EXTENDS Integers, Sequences, FiniteSets, TLC

VARIABLES
  text,       \* the argument of the latest call (the article's text)
  clipboard,  \* the block the author pastes into the article (Spec)
  noOfWords,  \* local of the latest call (helpers.ts line 3)
  readTime,   \* local of the latest call (helpers.ts line 5)
  result,     \* how the latest call completed, and the value it returned
  log,        \* the latest calls, oldest first (SpecCalls)
  cursor,     \* how much of the clipboard's block has been typed (Spec)
  frames      \* each caller's activation of the function (SpecConc)

vars == <<text, clipboard, noOfWords, readTime, result, log, cursor, frames>>

----------------------------------------------------------------------------
(* Bounds of the model.                                                    *)

\* Paste stops when the article would grow beyond this many characters.
MaxTextLen == 801

\* SpecCalls keeps this many calls in its log.
MaxLog == 3

\* SpecConc has this many callers.
NumCallers == 2

\* A text is taken apart this many characters from either end, at most (and
\* in the middle).
MaxAffix == 2

----------------------------------------------------------------------------
(* Characters.                                                             *)

\* Characters the regular expression class \s matches (those the model uses).
WhiteSpace == {" ", "\t", "\n"}

\* /\s/ applied to one character.
IsWhiteSpace(c) == c \in WhiteSpace

Digits == <<"0", "1", "2", "3", "4", "5", "6", "7", "8", "9">>

\* The literal part of the template of line 6: " minute read".
MinuteRead == <<" ", "m", "i", "n", "u", "t", "e", " ", "r", "e", "a", "d">>

----------------------------------------------------------------------------
(* The function, line by line.                                             *)

\* const wordsPerMinute = 200;
wordsPerMinute == 200

\* The matches of /\S/g, the complement class: the positions of the
\* non-whitespace characters.
MatchIndicesNonWhitespace(S) ==
  SelectSeq([i \in 1..Len(S) |-> i], LAMBDA i : ~IsWhiteSpace(S[i]))

\* The matches of /\s/g in S, in order: the positions of its whitespace
\* characters.  A match is exactly one character, so no match is empty and no
\* two overlap, and the search that follows a match finds the very next
\* whitespace character.
MatchIndices(S) ==
  SelectSeq([i \in 1..Len(S) |-> i], LAMBDA i : IsWhiteSpace(S[i]))

\* The array split builds from the matches m: the substrings of S before the
\* first match, between consecutive matches, and after the last one.
Substrings(S, m) ==
  [j \in 1..(Len(m) + 1) |->
     SubSeq(S, IF j = 1 THEN 1 ELSE m[j - 1] + 1,
               IF j = Len(m) + 1 THEN Len(S) ELSE m[j] - 1)]

\* A split that drops the empty strings, as text.split(/\s/g).filter(Boolean).
splitNonEmpty(S) ==
  SelectSeq(Substrings(S, MatchIndices(S)), LAMBDA tok : Len(tok) > 0)

\* A split at whitespace runs, as text.split(/\s+/g): a separator starts at a
\* whitespace character that opens S or follows a non-whitespace character,
\* and ends at one that closes S or precedes a non-whitespace character.
splitRuns(S) ==
  LET idx    == [i \in 1..Len(S) |-> i]
      starts == SelectSeq(idx, LAMBDA i :
                  IsWhiteSpace(S[i]) /\ (i = 1 \/ ~IsWhiteSpace(S[i - 1])))
      ends   == SelectSeq(idx, LAMBDA i :
                  IsWhiteSpace(S[i]) /\ (i = Len(S) \/ ~IsWhiteSpace(S[i + 1])))
  IN  [j \in 1..(Len(starts) + 1) |->
         SubSeq(S, IF j = 1 THEN 1 ELSE ends[j - 1] + 1,
                   IF j = Len(starts) + 1 THEN Len(S) ELSE starts[j] - 1)]

\* Characters of markup and punctuation (those the model uses).
MarkupChars == <<"<", "#", "*">>

\* A split that leaves out the tokens made of markup and punctuation only, as
\* a function that strips markup before it counts would.
splitStripMarkup(S) ==
  SelectSeq(Substrings(S, MatchIndices(S)),
            LAMBDA tok : \/ Len(tok) = 0
                         \/ \E i \in 1..Len(tok) :
                              \A k \in 1..Len(MarkupChars) : tok[i] # MarkupChars[k])

\* A split into single characters, as text.split("").
splitChars(S) == [i \in 1..Len(S) |-> <<S[i]>>]

\* text.split(/\s/g).  (The empty string has no match, so its array holds the
\* one, empty, string.)
split(S) == Substrings(S, MatchIndices(S))

\* The operands of line 4 exchanged: wordsPerMinute / noOfWords.
DivideInverted(a, b) == [num |-> b, den |-> a]

\* noOfWords / wordsPerMinute: the quotient, kept as an exact fraction.  (The
\* double of line 4 is an integer exactly when the fraction is one, and lies
\* strictly between the same two integers otherwise, for every length a
\* string can have.)
Divide(a, b) == [num |-> a, den |-> b]

\* Math.floor in place of Math.ceil.
MathFloor(q) == q.num \div q.den

\* Math.round in place of Math.ceil.
MathRound(q) == (2 * q.num + q.den) \div (2 * q.den)

\* Math.floor(minutes) + 1 in place of Math.ceil: a whole number of minutes
\* is rounded up too.
MathFloorPlusOne(q) == (q.num \div q.den) + 1

\* Math.ceil(minutes): the least integer not below the fraction.
MathCeil(q) == -((-q.num) \div q.den)

\* Number.prototype.toString of an integer: "-" and the decimal digits,
\* most significant first, no leading zero.
RECURSIVE NumberToString(_)
NumberToString(n) ==
  IF n < 0 THEN <<"-">> \o NumberToString(-n)
  ELSE IF n < 10 THEN <<Digits[n + 1]>>
  ELSE NumberToString(n \div 10) \o <<Digits[(n % 10) + 1]>>

\* A template that pluralises: `${readTime} minutes read` unless readTime is 1.
TemplatePlural(n) ==
  IF n = 1 THEN NumberToString(n) \o MinuteRead
  ELSE NumberToString(n) \o <<" ", "m", "i", "n", "u", "t", "e", "s", " ",
                              "r", "e", "a", "d">>

\* `${readTime} minute read`
TemplateLiteral(n) == NumberToString(n) \o MinuteRead

\* A call that returns v, with the values its locals had.
Return(v, n, r) == [type |-> "return", value |-> v, noOfWords |-> n, readTime |-> r]

\* A call that throws.
Throw(n, r) == [type |-> "throw", value |-> <<>>, noOfWords |-> n, readTime |-> r]

\* The function written with text.match(/\S+/g).length: match returns null
\* when the text holds no word, and reading .length of null throws.
generateReadingTimeMatch(t) ==
  LET words == splitNonEmpty(t)
      rt    == MathCeil(Divide(Len(words), wordsPerMinute))
  IN  IF Len(words) = 0 THEN Throw(noOfWords, readTime)
      ELSE Return(TemplateLiteral(rt), Len(words), rt)

\* The function with noOfWords declared outside it and added to.
generateReadingTimeShared(t) ==
  LET n  == noOfWords + Len(split(t))
      rt == MathCeil(Divide(n, wordsPerMinute))
  IN  Return(TemplateLiteral(rt), n, rt)

\* export function generateReadingTime(text: string): string
generateReadingTime(t) ==
  LET n       == Len(split(t))
      minutes == Divide(n, wordsPerMinute)
      rt      == MathCeil(minutes)
  IN  Return(TemplateLiteral(rt), n, rt)

----------------------------------------------------------------------------
(* Texts the callers pass.                                                 *)

\* n copies of the block u.
Repeat(u, n) == [i \in 1..(n * Len(u)) |-> u[((i - 1) % Len(u)) + 1]]

\* n words joined by single spaces (n >= 1).
SingleSpaced(n) == <<"a">> \o Repeat(<<" ", "a">>, n - 1)

\* S with the character c put in before position i.
InsertAt(S, i, c) == SubSeq(S, 1, i - 1) \o <<c>> \o SubSeq(S, i, Len(S))

\* S with every non-whitespace character replaced by a markup character.
Markup(S) ==
  [i \in 1..Len(S) |->
     IF IsWhiteSpace(S[i]) THEN S[i] ELSE MarkupChars[(i % Len(MarkupChars)) + 1]]

Empty == <<>>
HelloWorld == <<"h", "e", "l", "l", "o", " ", "w", "o", "r", "l", "d">>
\* "one\n\ntwo\tthree   four"
MixedWhitespace ==
  <<"o", "n", "e", "\n", "\n", "t", "w", "o", "\t", "t", "h", "r", "e", "e",
    " ", " ", " ", "f", "o", "u", "r">>
\* Blank lines only, enough of them for a two-digit minute value.
LongBlank == Repeat(<<"\n">>, 9 * wordsPerMinute)

\* The drafts an article starts from.
Seeds == {Empty, <<"a">>, HelloWorld, MixedWhitespace, LongBlank}

\* The blocks an author pastes: a further word, a blank, a paragraph break
\* followed by a markup character.
Units == { <<" ", "a">>, <<" ">>, <<"\n", "\n", "<">> }

\* The inputs of SpecCalls: the scenarios, a text of exactly wordsPerMinute
\* words joined by single spaces, that text with its first separator made
\* two characters long, and two of these texts turned into markup.
CallInputs ==
  {Empty, <<"a">>, HelloWorld, MixedWhitespace,
   SingleSpaced(wordsPerMinute),
   InsertAt(SingleSpaced(wordsPerMinute), 2, " "),
   Markup(HelloWorld),
   Markup(InsertAt(SingleSpaced(wordsPerMinute), 2, " "))}

----------------------------------------------------------------------------
(* The state machine.                                                      *)

NoCall == [type |-> "none", value |-> <<>>]

Callers == 1..NumCallers

\* An activation that has not been entered: no argument, no local set.
IdleFrame ==
  [pc |-> "idle", text |-> <<>>, noOfWords |-> 0,
   minutes |-> Divide(0, wordsPerMinute), readTime |-> 0, ret |-> <<>>]

\* One call of generateReadingTime(t): its locals and its completion.
Call(t) ==
  LET r == generateReadingTime(t)
  IN  /\ text' = t
      /\ noOfWords' = r.noOfWords
      /\ readTime' = r.readTime
      /\ result' = [type |-> r.type, value |-> r.value]

\* The entry the log keeps of the call just made.
LogEntry == [arg |-> text', noOfWords |-> noOfWords', readTime |-> readTime',
             type |-> result'.type, label |-> result'.value]

\* The log with the entry e added, the oldest entry dropped when it is full.
Logged(e) ==
  IF Len(log) < MaxLog THEN Append(log, e) ELSE Append(Tail(log), e)

Init ==
  /\ text \in Seeds
  /\ clipboard \in Units
  /\ noOfWords = 0
  /\ readTime = 0
  /\ result = NoCall
  /\ log = <<>>
  /\ cursor = 0
  /\ frames = [c \in Callers |-> IdleFrame]

\* The page renders the article as it stands.
Render ==
  /\ Call(text)
  /\ UNCHANGED <<clipboard, log, cursor, frames>>

\* The author pastes the block at the end of the article; the page renders.
Paste ==
  /\ cursor = 0
  /\ Len(text) + Len(clipboard) <= MaxTextLen
  /\ Call(text \o clipboard)
  /\ UNCHANGED <<clipboard, log, cursor, frames>>

\* The author types the next character of the block at the end of the
\* article; the page renders.
Type ==
  /\ Len(text) < MaxTextLen
  /\ Call(Append(text, clipboard[cursor + 1]))
  /\ cursor' = (cursor + 1) % Len(clipboard)
  /\ UNCHANGED <<clipboard, log, frames>>

Next == Render \/ Paste \/ Type

Spec == Init /\ [][Next]_vars

InitCalls ==
  /\ text = Empty
  /\ clipboard = <<>>
  /\ noOfWords = 0
  /\ readTime = 0
  /\ result = NoCall
  /\ log = <<>>
  /\ cursor = 0
  /\ frames = [c \in Callers |-> IdleFrame]

\* Some caller calls the function with the input t; the call is logged.
LoggedCall(t) ==
  /\ Call(t)
  /\ log' = Logged(LogEntry)
  /\ UNCHANGED <<clipboard, cursor, frames>>

NextCalls == \E t \in CallInputs : LoggedCall(t)

SpecCalls == InitCalls /\ [][NextCalls]_vars

----------------------------------------------------------------------------
(* Callers inside the function at the same time.  Each caller runs its own *)
(* activation a source line at a time; text, noOfWords, readTime and       *)
(* result keep what the latest step of any caller bound, computed or       *)
(* returned.                                                               *)

\* The inputs of SpecConc: texts of 2 and of 201 tokens, which get different
\* labels.
ConcInputs == {HelloWorld, InsertAt(SingleSpaced(wordsPerMinute), 2, " ")}

\* noOfWords read from the one binding all activations would share, were it
\* declared outside the function.
SharedNoOfWords(c) == noOfWords

\* noOfWords as line 4 of caller c's activation reads it: its own local.
LocalNoOfWords(c) == frames[c].noOfWords

\* Caller c enters the function with the argument t (line 1).
Enter(c, t) ==
  /\ frames[c].pc \in {"idle", "done"}
  /\ frames' = [frames EXCEPT ![c] = [IdleFrame EXCEPT !.pc = "split", !.text = t]]
  /\ text' = t
  /\ UNCHANGED <<clipboard, noOfWords, readTime, result, log, cursor>>

\* Line 3: const noOfWords = text.split(/\s/g).length;
StepSplit(c) ==
  /\ frames[c].pc = "split"
  /\ LET n == Len(split(frames[c].text))
     IN  /\ frames' = [frames EXCEPT ![c].noOfWords = n, ![c].pc = "divide"]
         /\ noOfWords' = n
  /\ UNCHANGED <<text, clipboard, readTime, result, log, cursor>>

\* Line 4: const minutes = noOfWords / wordsPerMinute;
StepDivide(c) ==
  /\ frames[c].pc = "divide"
  /\ frames' = [frames EXCEPT
                  ![c].minutes = Divide(LocalNoOfWords(c), wordsPerMinute),
                  ![c].pc = "ceil"]
  /\ UNCHANGED <<text, clipboard, noOfWords, readTime, result, log, cursor>>

\* Line 5: const readTime = Math.ceil(minutes);
StepCeil(c) ==
  /\ frames[c].pc = "ceil"
  /\ LET rt == MathCeil(frames[c].minutes)
     IN  /\ frames' = [frames EXCEPT ![c].readTime = rt, ![c].pc = "return"]
         /\ readTime' = rt
  /\ UNCHANGED <<text, clipboard, noOfWords, result, log, cursor>>

\* Line 6: return `${readTime} minute read`;
StepReturn(c) ==
  /\ frames[c].pc = "return"
  /\ LET v == TemplateLiteral(frames[c].readTime)
     IN  /\ frames' = [frames EXCEPT ![c].ret = v, ![c].pc = "done"]
         /\ result' = [type |-> "return", value |-> v]
  /\ UNCHANGED <<text, clipboard, noOfWords, readTime, log, cursor>>

NextConc ==
  \E c \in Callers :
    \/ \E t \in ConcInputs : Enter(c, t)
    \/ StepSplit(c)
    \/ StepDivide(c)
    \/ StepCeil(c)
    \/ StepReturn(c)

SpecConc == InitCalls /\ [][NextConc]_vars

----------------------------------------------------------------------------
(* What the claims speak of.                                               *)

\* A call has been made and has completed.
Called == result.type # "none"

\* The label the latest call returned.
Label == result.value

\* The words of S as the glossary defines them: maximal runs of non-whitespace
\* characters.  A word starts at every non-whitespace character that opens S
\* or follows a whitespace character.
WordCount(S) ==
  Cardinality({i \in 1..Len(S) :
                 /\ ~IsWhiteSpace(S[i])
                 /\ (i = 1 \/ IsWhiteSpace(S[i - 1]))})

IsDigit(c) == \E d \in 1..10 : Digits[d] = c

DigitValue(c) == (CHOOSE d \in 1..10 : Digits[d] = c) - 1

\* The number of digits v starts with.
LeadingDigits(v) ==
  Cardinality({i \in 1..Len(v) : \A j \in 1..i : IsDigit(v[j])})

RECURSIVE DecimalValue(_, _)
DecimalValue(v, k) ==
  IF k = 0 THEN 0 ELSE 10 * DecimalValue(v, k - 1) + DigitValue(v[k])

\* The minute value a label shows: the number its leading digits spell.
MinuteValue(v) == DecimalValue(v, LeadingDigits(v))

\* v reads "<digits> minute read": one digit or more, one space, the two
\* words, and nothing else.
IsLabel(v) ==
  /\ Len(v) > Len(MinuteRead)
  /\ \A i \in 1..(Len(v) - Len(MinuteRead)) : IsDigit(v[i])
  /\ SubSeq(v, Len(v) - Len(MinuteRead) + 1, Len(v)) = MinuteRead

\* N is the ceiling of W / 200.
IsCeiling(N, W) == 200 * N >= W /\ 200 * (N - 1) < W

\* S is one word or more joined by single spaces: no other whitespace, no
\* space first or last, no two spaces in a row.
IsSingleSpaced(S) ==
  /\ Len(S) > 0
  /\ ~IsWhiteSpace(S[1])
  /\ ~IsWhiteSpace(S[Len(S)])
  /\ \A i \in 1..Len(S) : IsWhiteSpace(S[i]) => S[i] = " "
  /\ \A i \in 1..(Len(S) - 1) : ~(IsWhiteSpace(S[i]) /\ IsWhiteSpace(S[i + 1]))

\* S holds whitespace only.
IsBlank(S) == \A i \in 1..Len(S) : IsWhiteSpace(S[i])

\* B is A with one single whitespace separator between two words replaced by
\* a longer whitespace run.
LengthensSeparator(A, B) ==
  /\ Len(B) > Len(A)
  /\ \E i \in 2..(Len(A) - 1) :
       /\ IsWhiteSpace(A[i])
       /\ ~IsWhiteSpace(A[i - 1])
       /\ ~IsWhiteSpace(A[i + 1])
       /\ SubSeq(B, 1, i - 1) = SubSeq(A, 1, i - 1)
       /\ IsBlank(SubSeq(B, i, i + Len(B) - Len(A)))
       /\ SubSeq(B, i + Len(B) - Len(A) + 1, Len(B)) = SubSeq(A, i + 1, Len(A))

----------------------------------------------------------------------------
(* The claims.                                                             *)

\* C1: for every non-empty text of W >= 1 words (maximal runs of
\* non-whitespace), the minute value of the returned label is ceil(W / 200).
C1_MinutesAreCeilOfWords ==
  (Called /\ Len(text) > 0 /\ WordCount(text) >= 1)
    => IsCeiling(MinuteValue(Label), WordCount(text))

\* C2: a text and the same text with one single separator made a longer
\* whitespace run get the same word count and the same label.
C2_LongerSeparatorSameLabel ==
  \A i, j \in DOMAIN log :
    LengthensSeparator(log[i].arg, log[j].arg)
      => /\ log[i].noOfWords = log[j].noOfWords
         /\ log[i].label = log[j].label

\* C3: every call returns a string of the form "<integer> minute read":
\* decimal digits, one space, "minute read", nothing before or after.
C3_LabelForm == Called => IsLabel(Label)

\* C3 witness: a call has returned a label with a two-digit integer.
C3_Witness ==
  /\ Called
  /\ IsLabel(Label)
  /\ LeadingDigits(Label) = 2

\* C4: every call, of the empty string and of whitespace-only strings too,
\* returns a label; none throws.
C4_Total ==
  /\ result.type \in {"none", "return"}
  /\ Called => Len(Label) > 0

\* C4 witness: a call of a non-empty whitespace-only string has returned.
C4_Witness ==
  /\ Called
  /\ Len(text) > 0
  /\ IsBlank(text)
  /\ result.type = "return"

\* C5: for the empty string the word count is 1 and the label is
\* "1 minute read".
C5_EmptyString ==
  (Called /\ text = Empty)
    => /\ noOfWords = 1
       /\ Label = <<"1">> \o MinuteRead

\* C5 witness: the empty string has been passed and one token counted.
C5_Witness ==
  /\ Called
  /\ text = Empty
  /\ noOfWords = 1

\* C6: for W words joined by single spaces, W = 200 gives "1 minute read",
\* W = 201 and W = 400 give "2 minute read"; W = 200k gives k and
\* W = 200k + 1 gives k + 1.
C6_ChangesAtMultiplesOf200 ==
  (Called /\ IsSingleSpaced(text)) =>
    LET W == WordCount(text)
    IN  /\ W = 200 => Label = <<"1">> \o MinuteRead
        /\ W = 201 => Label = <<"2">> \o MinuteRead
        /\ W = 400 => Label = <<"2">> \o MinuteRead
        /\ \A k \in 0..W :
             /\ (k >= 1 /\ W = 200 * k) => MinuteValue(Label) = k
             /\ W = 200 * k + 1 => MinuteValue(Label) = k + 1

\* C6 witness: a text of 401 single-spaced words has been passed, one word
\* past the second multiple of 200.
C6_Witness ==
  /\ Called
  /\ IsSingleSpaced(text)
  /\ WordCount(text) = 401
  /\ MinuteValue(Label) = 3

\* C7: a text with no more words (maximal runs of non-whitespace) than
\* another gets a minute value no larger.
C7_MonotoneInWords ==
  \A i, j \in DOMAIN log :
    WordCount(log[i].arg) <= WordCount(log[j].arg)
      => MinuteValue(log[i].label) <= MinuteValue(log[j].label)

\* C8: for "one\n\ntwo\tthree   four" the function counts 4 words and returns
\* "1 minute read".
C8_MixedWhitespace ==
  (Called /\ text = MixedWhitespace)
    => /\ noOfWords = 4
       /\ Label = <<"1">> \o MinuteRead

\* C9: the integer of the label is at least 1; "0 minute read" is never
\* returned.
C9_PositiveMinutes ==
  Called => /\ MinuteValue(Label) >= 1
            /\ Label # <<"0">> \o MinuteRead

\* C9 witness: a call that counted the fewest tokens a non-empty text can
\* have has returned the minute value 1.
C9_Witness ==
  /\ Called
  /\ Len(text) > 0
  /\ noOfWords = 1
  /\ MinuteValue(Label) = 1

\* C10: two calls with the same input return the same label, whatever was
\* called before or between them.
C10_Deterministic ==
  \A i, j \in DOMAIN log :
    log[i].arg = log[j].arg => log[i].label = log[j].label

\* C10 witness: the same input has been passed twice, with a call of another
\* input between the two.
C10_Witness ==
  /\ Len(log) = 3
  /\ log[1].arg = log[3].arg
  /\ log[2].arg # log[1].arg
  /\ log[1].label = log[3].label

\* C11: whatever the interleaving of the callers' steps, a call that has
\* returned has returned the label the function yields for its argument when
\* it runs alone.
C11_NoInterference ==
  \A c \in Callers :
    frames[c].pc = "done"
      => frames[c].ret = generateReadingTime(frames[c].text).value

\* C11 witness: a call has returned its label while another caller, passed a
\* text with another word count, was between its lines 3 and 6.
C11_Witness ==
  \E c, d \in Callers :
    /\ frames[c].pc = "done"
    /\ frames[c].ret = generateReadingTime(frames[c].text).value
    /\ frames[d].pc \in {"divide", "ceil", "return"}
    /\ frames[d].text # frames[c].text
    /\ frames[d].noOfWords # frames[c].noOfWords

\* C12: a single word with no whitespace counts as 1 word, "hello world" as
\* 2, and both get "1 minute read"; so does every text of 1 to 200 words
\* joined by single spaces.
C12_UpTo200Words ==
  Called =>
    /\ (Len(text) > 0 /\ \A i \in 1..Len(text) : ~IsWhiteSpace(text[i]))
         => (noOfWords = 1 /\ Label = <<"1">> \o MinuteRead)
    /\ text = HelloWorld
         => (noOfWords = 2 /\ Label = <<"1">> \o MinuteRead)
    /\ (IsSingleSpaced(text) /\ WordCount(text) <= 200)
         => Label = <<"1">> \o MinuteRead

\* C12 witness: a text of exactly 200 single-spaced words has been passed and
\* "1 minute read" returned.
C12_Witness ==
  /\ Called
  /\ IsSingleSpaced(text)
  /\ WordCount(text) = 200
  /\ Label = <<"1">> \o MinuteRead

\* C13: the minute value N is the ceiling of the token count over 200:
\* 200 * (N - 1) < token count <= 200 * N.
C13_CeilingOfTokens ==
  Called =>
    LET N == MinuteValue(Label)
    IN  /\ 200 * (N - 1) < noOfWords
        /\ noOfWords <= 200 * N

\* C13 witness: 400 tokens were counted, a whole number of minutes, and the
\* minute value is 2, not 3.
C13_Witness ==
  /\ Called
  /\ noOfWords = 400
  /\ MinuteValue(Label) = 2

\* The tokens of S when every whitespace run is one separator and nothing is
\* trimmed: its words, one empty token for a leading run and one for a
\* trailing run (the empty text is one empty token).
RunTokenCount(S) ==
  IF Len(S) = 0 THEN 1
  ELSE WordCount(S) + (IF IsWhiteSpace(S[1]) THEN 1 ELSE 0)
                    + (IF IsWhiteSpace(S[Len(S)]) THEN 1 ELSE 0)

\* The whitespace characters of S.
WhiteSpaceCount(S) == Cardinality({i \in 1..Len(S) : IsWhiteSpace(S[i])})

\* C14: the text is split at runs of one or more whitespace characters and
\* not trimmed: the token count is the number of words, plus one for a
\* leading whitespace run and one for a trailing run, whatever their length.
C14_SplitsAtRuns == Called => noOfWords = RunTokenCount(text)

\* C16: the token count is the number of whitespace characters plus one, so
\* a text with k whitespace characters gets ceil((k + 1) / 200) minutes,
\* wherever they stand; a whitespace-only text of k >= 200 characters gets
\* more than 1.
C16_WhitespacePlusOne ==
  Called =>
    LET k == WhiteSpaceCount(text)
    IN  /\ noOfWords = k + 1
        /\ IsCeiling(MinuteValue(Label), k + 1)
        /\ (IsBlank(text) /\ k >= 200) => MinuteValue(Label) > 1

\* C16 witness: a text of exactly 200 whitespace characters and nothing else
\* has been passed and got 2 minutes.
C16_Witness ==
  /\ Called
  /\ IsBlank(text)
  /\ Len(text) = 200
  /\ noOfWords = 201
  /\ MinuteValue(Label) = 2

\* B is A with non-whitespace characters replaced by non-whitespace
\* characters: the whitespace of the two is the same, character by character.
ReplacesNonWhitespace(A, B) ==
  /\ Len(A) = Len(B)
  /\ \A i \in 1..Len(A) :
       IF IsWhiteSpace(A[i]) THEN B[i] = A[i] ELSE ~IsWhiteSpace(B[i])

\* Every non-whitespace character of S is a markup character.
IsMarkupOnly(S) ==
  \A i \in 1..Len(S) :
    IsWhiteSpace(S[i]) \/ \E k \in 1..Len(MarkupChars) : S[i] = MarkupChars[k]

\* C15: markup and punctuation are not stripped: replacing non-whitespace
\* characters by other non-whitespace characters changes neither the word
\* count nor the label, and a token made of markup only counts as one word.
C15_MarkupCounts ==
  /\ \A i, j \in DOMAIN log :
       ReplacesNonWhitespace(log[i].arg, log[j].arg)
         => /\ log[i].noOfWords = log[j].noOfWords
            /\ log[i].label = log[j].label
  /\ \A i \in DOMAIN log :
       (IsMarkupOnly(log[i].arg) /\ IsSingleSpaced(log[i].arg))
         => log[i].noOfWords = WordCount(log[i].arg)

\* C15 witness: a text of 201 tokens and the same text with every letter
\* replaced by markup have both been passed, and both got "2 minute read".
C15_Witness ==
  \E i, j \in DOMAIN log :
    /\ log[i].arg # log[j].arg
    /\ ReplacesNonWhitespace(log[i].arg, log[j].arg)
    /\ IsMarkupOnly(log[j].arg)
    /\ log[i].label = <<"2">> \o MinuteRead
    /\ log[j].label = <<"2">> \o MinuteRead

\* The minute value of the label the function returns for S.
MinutesOf(S) == MinuteValue(generateReadingTime(S).value)

\* Where a text of n characters is taken apart: up to MaxAffix characters
\* from its start or from its end, and in the middle.
CutPoints(n) ==
  {k \in 0..n : k <= MaxAffix \/ n - k <= MaxAffix \/ k = n \div 2}

\* C17: the minute value of A followed by B is at least the larger of the
\* minute values of A and of B, and at most their sum.
C17_ConcatenationBounds ==
  Called =>
    \A k \in CutPoints(Len(text)) :
      LET a == MinutesOf(SubSeq(text, 1, k))
          b == MinutesOf(SubSeq(text, k + 1, Len(text)))
          m == MinuteValue(Label)
      IN  /\ m >= a
          /\ m >= b
          /\ m <= a + b

\* C17 witness: a text of 399 tokens has been passed whose two halves get 1
\* minute each; it got 2, the sum, more than either half.
C17_Witness ==
  /\ Called
  /\ noOfWords = 399
  /\ MinuteValue(Label) = 2
  /\ MinutesOf(SubSeq(text, 1, Len(text) \div 2)) = 1
  /\ MinutesOf(SubSeq(text, (Len(text) \div 2) + 1, Len(text))) = 1

\* C18: when one character is appended to the text of the latest call, the
\* minute value stays or rises by 1, and it rises only when the character is
\* whitespace.
C18_OneCharacterAtATime ==
  [][(/\ Called
      /\ Len(text') = Len(text) + 1
      /\ SubSeq(text', 1, Len(text)) = text)
       => LET d == MinuteValue(Label') - MinuteValue(Label)
          IN  /\ d \in {0, 1}
              /\ d = 1 => IsWhiteSpace(text'[Len(text')])]_vars

\* C18 witness: the character typed last is a space, it is the 200th
\* whitespace character, and the minute value is 2 where the text without
\* it gets 1.
C18_Witness ==
  /\ Called
  /\ cursor = 1
  /\ Len(text) > 0
  /\ IsWhiteSpace(text[Len(text)])
  /\ noOfWords = 201
  /\ MinuteValue(Label) = 2
  /\ MinutesOf(SubSeq(text, 1, Len(text) - 1)) = 1

====
